---- MODULE Spec2Model ----
(***************************************************************************)
(* A model of the wind-curtailment reconciliation core                     *)
(* (lib/curtailment.py) and of the ETL service loop (etl2.py).             *)
(*                                                                         *)
(* Timestamps are integer ticks; one minute (the "T" resampling grid) is   *)
(* TicksPerMinute ticks, so several points can fall inside one minute.     *)
(* Floating-point quantities (MW, MWh, GBP) are exact fixed-point numbers: *)
(* the integer n stands for n / Scale.  NaN is a reserved integer no       *)
(* computation of the model can produce.                                   *)
(***************************************************************************)
EXTENDS Integers, Sequences, FiniteSets, TLC

VARIABLES
    pc,           \* position of the caller: the call it is about to make, or
                  \* the library function that has returned
    df_boal_unit, \* BOAL ramp segments of one unit (input table, row order kept)
    df_fpn_unit,  \* FPN ramp segments of one unit (input table)
    df_bod_unit,  \* price rows, or None
    out,          \* resolve_applied_bid_offer_level: the list of upsampled traces
    resolved,     \* resolve_applied_bid_offer_level: the returned series
    df_merged,    \* the ReconciledFrame (analyze_one_unit's result, metric argument)
    passed,       \* the frame as it was when it was handed to a metric function
    ret,          \* the scalar a metric function returned
    raised,       \* the exception that left the last call, or NoError
    etl           \* the ETL service process (etl2.main)

vars == <<pc, df_boal_unit, df_fpn_unit, df_bod_unit, out, resolved, df_merged,
          passed, ret, raised, etl>>

----------------------------------------------------------------------------
(* Bounds of the model *)

MaxTick == 4
MaxRows == 2
MaxPriceRows == 2
MaxFrameRows == 2

\* resample("T"): a 1-minute bin; the clock of the model ticks every 30 s
TicksPerMinute == 2

Ticks == 0..MaxTick
\* the last minute of the horizon
MaxMinute == MaxTick \div TicksPerMinute

----------------------------------------------------------------------------
(* Numbers *)

RECURSIVE GCD(_, _)
GCD(a, b) == IF b = 0 THEN a ELSE GCD(b, a % b)

LCM(a, b) == (a * b) \div GCD(a, b)

RECURSIVE LcmUpTo(_)
LcmUpTo(n) == IF n <= 1 THEN 1 ELSE LCM(n, LcmUpTo(n - 1))

\* MINUTES_TO_HOURS = 1 / 60
MinutesPerHour == 60

\* Fixed point: an integer n stands for the float n / Scale.  Scale is a
\* multiple of every divisor the code applies to a whole number of MW: the
\* count of a minute's mean (at most 2 * MaxRows points), then the gap of a
\* linear interpolation (at most MaxMinute minutes), then the 0.5 of
\* energy_mwh or the 1/60 of MINUTES_TO_HOURS.
Scale == MinutesPerHour * LcmUpTo(2 * MaxRows) * LcmUpTo(MaxMinute)

NaN == -(2 ^ 30)
\* Optional[pd.DataFrame]: None, or the table
None == <<>>
Some(t) == <<t>>
NoError == "NoError"

\* Series.astype(float) of a level column (a whole number of MW)
astype_float(x) == IF x = NaN THEN NaN ELSE x * Scale

Sub(a, b) == IF a = NaN \/ b = NaN THEN NaN ELSE a - b
Mul(a, b) == IF a = NaN \/ b = NaN THEN NaN ELSE a * b
Neg(a) == IF a = NaN THEN NaN ELSE 0 - a
\* x * 0.5
Half(a) == IF a = NaN THEN NaN ELSE a \div 2
\* Series.fillna(other), cell by cell
fillna(a, b) == IF a = NaN THEN b ELSE a

RECURSIVE SeqSum(_)
SeqSum(s) == IF s = <<>> THEN 0 ELSE Head(s) + SeqSum(Tail(s))

Min(S) == CHOOSE x \in S : \A y \in S : x <= y
Max(S) == CHOOSE x \in S : \A y \in S : x >= y

RECURSIVE SortedSeq(_)
\* the elements of a finite set of integers in ascending order
SortedSeq(S) == IF S = {} THEN <<>> ELSE <<Min(S)>> \o SortedSeq(S \ {Min(S)})

RECURSIVE Flatten(_)
Flatten(ss) == IF ss = <<>> THEN <<>> ELSE Head(ss) \o Flatten(Tail(ss))

Column(rows, c) == [i \in 1..Len(rows) |-> rows[i][c]]

\* pandas Series.sum(): skipna=True, NaN cells are left out (0 when all are)
sum(col) == SeqSum(SelectSeq(col, LAMBDA x : x # NaN))

\* GroupBy.first / GroupBy.last: the first (last) non-null cell of a column
FirstValid(rows, c) ==
    LET ok == SelectSeq(rows, LAMBDA r : r[c] # NaN)
    IN  IF ok = <<>> THEN NaN ELSE ok[1][c]

LastValid(rows, c) ==
    LET ok == SelectSeq(rows, LAMBDA r : r[c] # NaN)
    IN  IF ok = <<>> THEN NaN ELSE ok[Len(ok)][c]

----------------------------------------------------------------------------
(* The 1-minute grid *)

\* the label of the resample("T") bin a timestamp falls in
Floor(t) == (t \div TicksPerMinute) * TicksPerMinute

\* the bin labels from lo to hi, both on the grid
Grid(lo, hi) == [i \in 1..((hi - lo) \div TicksPerMinute + 1) |->
                    lo + (i - 1) * TicksPerMinute]

\* the stable (mergesort) ordering by Time the resampler applies to an
\* index that is not monotonic
RECURSIVE SortByTime(_)
SortByTime(s) ==
    IF s = <<>> THEN <<>>
    ELSE LET h == Head(s)
             rest == SortByTime(Tail(s))
             k == Len(SelectSeq(rest, LAMBDA r : r.Time < h.Time))
         IN  SubSeq(rest, 1, k) \o <<h>> \o SubSeq(rest, k + 1, Len(rest))

----------------------------------------------------------------------------
(* linearize_physical_data *)

PointFrom(r) == [Time |-> r.timeFrom, Level |-> astype_float(r.levelFrom),
                 AcceptID |-> r.AcceptID, AcceptTime |-> r.AcceptTime]
PointTo(r) == [Time |-> r.timeTo, Level |-> astype_float(r.levelTo),
               AcceptID |-> r.AcceptID, AcceptTime |-> r.AcceptTime]

\* all from-points in row order, then all to-points in row order
linearize_physical_data(df) ==
    [i \in 1..Len(df) |-> PointFrom(df[i])] \o [i \in 1..Len(df) |-> PointTo(df[i])]

----------------------------------------------------------------------------
(* resolve_applied_bid_offer_level *)

DataColumns == {"Level", "AcceptID", "AcceptTime"}

\* the points of the resampler's input that fall in the bin labelled g
Bin(sorted, g) == SelectSeq(sorted, LAMBDA r : Floor(r.Time) = g)

\* a slip: .last() where the code has .first()
resample_last(data) ==
    LET sorted == SortByTime(data)
        grid == Grid(Floor(sorted[1].Time), Floor(sorted[Len(sorted)].Time))
    IN  [i \in 1..Len(grid) |->
            [c \in DataColumns |-> LastValid(Bin(sorted, grid[i]), c)]
                @@ [Time |-> grid[i]]]

\* .set_index("Time").resample("T").first(): one row per minute from the
\* minute of the earliest point to the minute of the latest one
resample_first(data) ==
    LET sorted == SortByTime(data)
        grid == Grid(Floor(sorted[1].Time), Floor(sorted[Len(sorted)].Time))
    IN  [i \in 1..Len(grid) |->
            [c \in DataColumns |-> FirstValid(Bin(sorted, grid[i]), c)]
                @@ [Time |-> grid[i]]]

\* forward fill, column by column
ffill(rows) ==
    LET f[i \in 0..Len(rows)] ==
            IF i = 0 THEN [c \in DataColumns |-> NaN]
            ELSE [c \in DataColumns |-> fillna(rows[i][c], f[i - 1][c])]
    IN  [i \in 1..Len(rows) |-> f[i] @@ [Time |-> rows[i].Time]]

\* the body of the loop over the groups: one batch's upsampled trace
high_freq(data) == ffill(ffill(resample_first(data)))

\* df_linear.groupby("Accept ID"): the groups in ascending key order, each
\* with its rows in the table's order
GroupKeys(df_linear) == SortedSeq({df_linear[i].AcceptID : i \in 1..Len(df_linear)})
Group(df_linear, id) == SelectSeq(df_linear, LAMBDA r : r.AcceptID = id)

\* a slip: the whole table upsampled at once, not batch by batch
Traces_ungrouped(df_linear) == <<high_freq(df_linear)>>

Traces(df_linear) ==
    LET keys == GroupKeys(df_linear)
    IN  [k \in 1..Len(keys) |-> high_freq(Group(df_linear, keys[k]))]

\* pd.concat(out)
recombined(traces) == Flatten(traces)

\* recombined.reset_index().groupby("Time").last()
groupby_Time_last(rows) ==
    LET times == SortedSeq({rows[i].Time : i \in 1..Len(rows)})
    IN  [k \in 1..Len(times) |->
            LET g == SelectSeq(rows, LAMBDA r : r.Time = times[k])
            IN  [c \in DataColumns |-> LastValid(g, c)] @@ [Time |-> times[k]]]

\* pd.concat raises ValueError("No objects to concatenate") on an empty list
ResolveRaises(df_linear) == Len(df_linear) = 0

resolve_applied_bid_offer_level(df_linear) ==
    groupby_Time_last(recombined(Traces(df_linear)))

----------------------------------------------------------------------------
(* analyze_one_unit *)

\* .set_index("Time").resample("T").mean(): the mean of the minute's levels,
\* NaN for a minute without a point
mean(col) ==
    LET ok == SelectSeq(col, LAMBDA x : x # NaN)
    IN  IF ok = <<>> THEN NaN ELSE SeqSum(ok) \div Len(ok)

resample_mean(data) ==
    LET sorted == SortByTime(data)
        grid == Grid(Floor(sorted[1].Time), Floor(sorted[Len(sorted)].Time))
    IN  [i \in 1..Len(grid) |->
            [Time |-> grid[i], Level |-> mean(Column(Bin(sorted, grid[i]), "Level"))]]

\* .interpolate(): linear in the row position between the nearest valid
\* neighbours; a leading NaN stays, a trailing NaN takes the last valid value
interpolate(rows) ==
    LET valid == {i \in 1..Len(rows) : rows[i].Level # NaN}
        At(i) ==
            LET before == {a \in valid : a <= i}
                after == {b \in valid : b >= i}
            IN  IF before = {} THEN NaN
                ELSE IF after = {} THEN rows[Max(before)].Level
                ELSE LET a == Max(before)
                         b == Min(after)
                     IN  IF a = b THEN rows[a].Level
                         ELSE rows[a].Level
                              + ((rows[b].Level - rows[a].Level) * (i - a)) \div (b - a)
    IN  [i \in 1..Len(rows) |-> [Time |-> rows[i].Time, Level |-> At(i)]]

unit_fpn_resolved(df_fpn) ==
    interpolate(resample_mean(linearize_physical_data(df_fpn)))

BaseColumns == {"Level_FPN", "Level_BOAL", "Level_After_BOAL", "delta"}
PriceColumns == {"local_datetime", "bidPrice", "energy_mwh", "cost_gbp"}

\* a slip: the missing BOAL level filled with 0 instead of the FPN level
MergedRow_fill_zero(time, level_fpn, level_boal) ==
    LET after == fillna(level_boal, 0)
    IN  [Time |-> time, Level_FPN |-> level_fpn, Level_BOAL |-> level_boal,
         Level_After_BOAL |-> after, delta |-> Sub(level_fpn, after)]

\* one row of the frame after lines 124-128: the FPN row with the BOAL level
\* joined to it, Level_After_BOAL and delta
MergedRow(time, level_fpn, level_boal) ==
    LET after == fillna(level_boal, level_fpn)
    IN  [Time |-> time, Level_FPN |-> level_fpn, Level_BOAL |-> level_boal,
         Level_After_BOAL |-> after, delta |-> Sub(level_fpn, after)]

\* DataFrame.join (left, on the index): every left row, once per right row
\* with the same Time, once with NaN when there is none
join(fpn, boal) ==
    Flatten([i \in 1..Len(fpn) |->
        LET m == SelectSeq(boal, LAMBDA r : r.Time = fpn[i].Time)
        IN  IF m = <<>> THEN <<MergedRow(fpn[i].Time, fpn[i].Level, NaN)>>
            ELSE [j \in 1..Len(m) |-> MergedRow(fpn[i].Time, fpn[i].Level, m[j].Level)]])

\* df_bod_unit[df_bod_unit["bidOfferPairNumber"] == "1"]
pair_one(df_bod) == SelectSeq(df_bod, LAMBDA r : r.bidOfferPairNumber = "1")

\* one row of the frame after the price merge and lines 143-144
PricedRow(r, bidPrice) ==
    LET energy == Half(r.delta)
    IN  [Level_FPN |-> r.Level_FPN, Level_BOAL |-> r.Level_BOAL,
         Level_After_BOAL |-> r.Level_After_BOAL, delta |-> r.delta,
         local_datetime |-> r.Time, bidPrice |-> bidPrice,
         energy_mwh |-> energy, cost_gbp |-> Mul(Neg(bidPrice), energy)]

\* DataFrame.merge(on=["local_datetime"]) (inner): every pair of a left row
\* and a right row with the same timestamp, in the left rows' order
merge(rows, bod) ==
    Flatten([i \in 1..Len(rows) |->
        LET m == SelectSeq(bod, LAMBDA r : r.local_datetime = rows[i].Time)
        IN  [j \in 1..Len(m) |-> PricedRow(rows[i], m[j].bidPrice)]])

\* analyze_one_unit raises what resolve_applied_bid_offer_level raises
AnalyzeRaises(df_boal) == ResolveRaises(linearize_physical_data(df_boal))

analyze_one_unit(df_boal, df_fpn, df_bod) ==
    LET unit_boal_resolved ==
            resolve_applied_bid_offer_level(linearize_physical_data(df_boal))
        rows == join(unit_fpn_resolved(df_fpn), unit_boal_resolved)
    IN  IF df_bod = None
        THEN [columns |-> BaseColumns, rows |-> rows]
        ELSE [columns |-> BaseColumns \cup PriceColumns,
              rows |-> merge(rows, pair_one(df_bod[1]))]

----------------------------------------------------------------------------
(* The metric functions *)

\* x * MINUTES_TO_HOURS
MinutesToHours(x) == IF x = NaN THEN NaN ELSE x \div MinutesPerHour

\* reading a column the frame does not have raises KeyError
calculate_curtailment_in_mwh(df) ==
    IF "delta" \notin df.columns
    THEN [raised |-> "KeyError", ret |-> NaN, df |-> df]
    ELSE [raised |-> NoError, df |-> df,
          ret |-> MinutesToHours(sum(Column(df.rows, "delta")))]

\* line 80 assigns the column energy_mwh in the caller's frame
SetEnergy(df) ==
    [columns |-> df.columns \cup {"energy_mwh"},
     rows |-> [i \in 1..Len(df.rows) |->
                  [energy_mwh |-> Half(df.rows[i].delta)] @@ df.rows[i]]]

calculate_curtailment_costs_in_gbp(df) ==
    IF "delta" \notin df.columns
    THEN [raised |-> "KeyError", ret |-> NaN, df |-> df]
    ELSE LET df2 == SetEnergy(df)
         IN  IF "bidPrice" \notin df2.columns
             THEN [raised |-> "KeyError", ret |-> NaN, df |-> df2]
             ELSE [raised |-> NoError, df |-> df2,
                   ret |-> Neg(sum([i \in 1..Len(df2.rows) |->
                             Mul(df2.rows[i].energy_mwh, df2.rows[i].bidPrice)]))]

calculate_notified_generation_in_mwh(df) ==
    IF "Level_FPN" \notin df.columns
    THEN [raised |-> "KeyError", ret |-> NaN, df |-> df]
    ELSE [raised |-> NoError, df |-> df,
          ret |-> MinutesToHours(sum(Column(df.rows, "Level_FPN")))]

----------------------------------------------------------------------------
(* Inputs *)

\* every point of a BOAL table carries its own level, so a resolved level
\* names the point it was taken from
BoalLevelFrom(i) == 20 * i - 10
BoalLevelTo(i) == 20 * i

\* a ramp does not end before it starts
Segments == {s \in Ticks \X Ticks : s[1] <= s[2]}

\* the batch of each of n rows: the Accept IDs in use are 1..k
AcceptIDs(n) ==
    {ids \in [1..n -> 1..n] : \E k \in 0..n : {ids[i] : i \in 1..n} = 1..k}

\* a batch (one Accept ID) has one Accept Time; the batches were accepted in
\* the order of their Accept IDs, or in the opposite order
AcceptOrders == {"ascending", "descending"}
AcceptTime(order, id, k) == IF order = "ascending" THEN id ELSE k + 1 - id

\* the BOAL tables of n rows, in any row order
BoalTables(n) ==
    {[i \in 1..n |->
        [AcceptID |-> ids[i],
         AcceptTime |-> AcceptTime(order, ids[i], Cardinality({ids[j] : j \in 1..n})),
         levelFrom |-> BoalLevelFrom(i), timeFrom |-> seg[i][1],
         levelTo |-> BoalLevelTo(i), timeTo |-> seg[i][2]]] :
        ids \in AcceptIDs(n), order \in AcceptOrders, seg \in [1..n -> Segments]}

FpnLevelFrom(i) == 120 - 20 * i
FpnLevelTo(i) == 100 - 20 * i

\* the FPN tables of n rows; an FPN table has no Accept ID and no Accept
\* Time column
FpnTables(n) ==
    {[i \in 1..n |->
        [AcceptID |-> NaN, AcceptTime |-> NaN,
         levelFrom |-> FpnLevelFrom(i), timeFrom |-> seg[i][1],
         levelTo |-> FpnLevelTo(i), timeTo |-> seg[i][2]]] :
        seg \in [1..n -> Segments]}

\* a constant FPN over the whole horizon
TheFpn == <<[AcceptID |-> NaN, AcceptTime |-> NaN, levelFrom |-> 100,
             timeFrom |-> 0, levelTo |-> 100, timeTo |-> MaxTick]>>

\* an acceptance that starts with the second minute, and ends at once or
\* with the horizon
PricedBoalTables ==
    {t \in BoalTables(1) :
        /\ t[1].timeFrom = TicksPerMinute
        /\ t[1].timeTo \in {TicksPerMinute, MaxTick}}

\* no acceptance, or one
FewBoalTables == BoalTables(0) \cup PricedBoalTables

\* acceptances that start and end on the minute
OnTheMinute(t) ==
    \A i \in 1..Len(t) : Floor(t[i].timeFrom) = t[i].timeFrom
                         /\ Floor(t[i].timeTo) = t[i].timeTo

BidPrices == {-50, -70}
PriceRows ==
    {[bidOfferPairNumber |-> p, bidPrice |-> b, local_datetime |-> t] :
        p \in {"1", "-1"}, b \in BidPrices, t \in Ticks}

PriceTables(n) == [1..n -> PriceRows]

\* frames a caller may hand to a metric function: any cell may be NaN
FrameRows ==
    {[Level_FPN |-> f, delta |-> d, bidPrice |-> b, energy_mwh |-> Half(d)] :
        f \in {NaN, astype_float(100)},
        d \in {NaN, 0, astype_float(40)},
        b \in {NaN, -50}}

Restrict(r, cols) == [c \in cols |-> r[c]]

Frames(n) ==
    {[columns |-> cols, rows |-> [i \in 1..n |-> Restrict(t[i], cols)]] :
        cols \in {{"Level_FPN", "delta"},
                  {"Level_FPN", "delta", "bidPrice"},
                  {"Level_FPN", "delta", "bidPrice", "energy_mwh"}},
        t \in [1..n -> FrameRows]}

\* the scenario of an hour of constant FPN with a ten-minute acceptance in
\* its middle, starting at tick T
Minutes(n) == n * TicksPerMinute
Segment(level, tf, tt) ==
    [AcceptID |-> NaN, AcceptTime |-> NaN, levelFrom |-> level, timeFrom |-> tf,
     levelTo |-> level, timeTo |-> tt]
ScenarioFpn(T) ==
    {<<Segment(100, T, T + Minutes(60))>>,
     <<Segment(100, T, T + Minutes(30)), Segment(100, T + Minutes(30), T + Minutes(60))>>}
ScenarioBoal(T) ==
    <<[Segment(60, T + Minutes(25), T + Minutes(35))
        EXCEPT !.AcceptID = 1, !.AcceptTime = 1]>>
ScenarioStarts == 0..(TicksPerMinute - 1)

NoFrame == [columns |-> {}, rows |-> <<>>]

EtlIdle == [pc |-> "idle"]

----------------------------------------------------------------------------
\* the tables of a call of resolve_applied_bid_offer_level
ResolveInputs ==
    /\ \E n \in 0..MaxRows : df_boal_unit \in BoalTables(n)
    /\ df_fpn_unit = <<>>
    /\ df_bod_unit = None

\* the tables of a call of analyze_one_unit
AnalyzeInputs ==
    \/ /\ \E n \in 0..MaxRows :
             df_boal_unit \in {t \in BoalTables(n) : OnTheMinute(t)}
       /\ df_fpn_unit = TheFpn
       /\ df_bod_unit = None
    \/ /\ df_boal_unit \in FewBoalTables
       /\ \E n \in 1..MaxRows : df_fpn_unit \in FpnTables(n)
       /\ df_bod_unit = None
    \/ /\ df_boal_unit \in PricedBoalTables
       /\ df_fpn_unit = TheFpn
       /\ \E n \in 0..MaxPriceRows : df_bod_unit \in {Some(t) : t \in PriceTables(n)}
    \/ \E T \in ScenarioStarts :
          /\ df_boal_unit = ScenarioBoal(T)
          /\ df_fpn_unit \in ScenarioFpn(T)
          /\ df_bod_unit = None

Init ==
    /\ \/ /\ pc = "resolve"
          /\ ResolveInputs
          /\ df_merged = NoFrame
       \/ /\ pc = "analyze"
          /\ AnalyzeInputs
          /\ df_merged = NoFrame
       \/ /\ pc = "frame"
          /\ df_boal_unit = <<>>
          /\ df_fpn_unit = <<>>
          /\ df_bod_unit = None
          /\ \E n \in 0..MaxFrameRows : df_merged \in Frames(n)
    /\ out = <<>>
    /\ resolved = <<>>
    /\ passed = NoFrame
    /\ ret = NaN
    /\ raised = NoError
    /\ etl = EtlIdle

\* a caller hands the linearized BOAL table to resolve_applied_bid_offer_level
Resolve ==
    /\ pc = "resolve"
    /\ LET df_linear == linearize_physical_data(df_boal_unit)
       IN  IF ResolveRaises(df_linear)
           THEN /\ raised' = "ValueError"
                /\ UNCHANGED <<out, resolved>>
           ELSE /\ out' = Traces(df_linear)
                /\ resolved' = resolve_applied_bid_offer_level(df_linear)
                /\ UNCHANGED raised
    /\ pc' = "resolved"
    /\ UNCHANGED <<df_boal_unit, df_fpn_unit, df_bod_unit, df_merged, passed, ret, etl>>

\* a caller runs analyze_one_unit on the unit's tables
AnalyzeOneUnit ==
    /\ pc = "analyze"
    /\ IF AnalyzeRaises(df_boal_unit)
       THEN /\ raised' = "ValueError"
            /\ pc' = "failed"
            /\ UNCHANGED <<out, resolved, df_merged>>
       ELSE /\ out' = Traces(linearize_physical_data(df_boal_unit))
            /\ resolved' =
                  resolve_applied_bid_offer_level(linearize_physical_data(df_boal_unit))
            /\ df_merged' = analyze_one_unit(df_boal_unit, df_fpn_unit, df_bod_unit)
            /\ pc' = "frame"
            /\ UNCHANGED raised
    /\ UNCHANGED <<df_boal_unit, df_fpn_unit, df_bod_unit, passed, ret, etl>>

\* a caller hands its frame to a metric function
Metric(f, r) ==
    /\ pc = "frame"
    /\ pc' = f
    /\ passed' = df_merged
    /\ df_merged' = r.df
    /\ ret' = r.ret
    /\ raised' = r.raised
    /\ UNCHANGED <<df_boal_unit, df_fpn_unit, df_bod_unit, out, resolved, etl>>

CurtailmentInMwh ==
    Metric("calculate_curtailment_in_mwh", calculate_curtailment_in_mwh(df_merged))

CurtailmentCostsInGbp ==
    Metric("calculate_curtailment_costs_in_gbp",
           calculate_curtailment_costs_in_gbp(df_merged))

NotifiedGenerationInMwh ==
    Metric("calculate_notified_generation_in_mwh",
           calculate_notified_generation_in_mwh(df_merged))

Next ==
    \/ Resolve
    \/ AnalyzeOneUnit
    \/ CurtailmentInMwh
    \/ CurtailmentCostsInGbp
    \/ NotifiedGenerationInMwh

Spec == Init /\ [][Next]_vars

----------------------------------------------------------------------------
(* etl2.main: the ETL service.  The clock is in hours. *)

\* schedule.every().day.at("04:00")
HoursPerDay == 24
RunAt == 4
\* how long one run of fetch_and_load_data may take, and how far the
\* counters of the runs count before they saturate
MaxJobHours == 2
MaxCount == 2

Outcomes == {"returned", "raised"}
Count(n) == IF n < MaxCount THEN n + 1 ELSE MaxCount

\* the hours from `tod` to the next 04:00 strictly after it: the next_run
\* that schedule computes for a daily job
NextRunIn(tod) == ((RunAt - tod - 1) % HoursPerDay) + 1

\* a slip: the job without its try/except, so the exception leaves it
job_without_except(e, outcome, d) ==
    [e EXCEPT !.tod = (@ + d) % HoursPerDay,
              !.runs = Count(@),
              !.parity = 1 - @,
              !.last = outcome,
              !.failed = IF outcome = "raised" THEN Count(@) ELSE @,
              !.propagated = (outcome = "raised")]

\* job(): fetch_and_load_data returns or raises after d hours; the except
\* clause logs the exception and swallows it
job(e, outcome, d) ==
    [e EXCEPT !.tod = (@ + d) % HoursPerDay,
              !.runs = Count(@),
              !.parity = 1 - @,
              !.last = outcome,
              !.failed = IF outcome = "raised" THEN Count(@) ELSE @,
              !.warnings = IF outcome = "raised" THEN Count(@) ELSE @,
              !.propagated = FALSE]

\* an exception that leaves job() leaves main(): the process ends
After(e, then) == [e EXCEPT !.pc = IF e.propagated THEN "dead" ELSE then]

InitETL ==
    /\ pc = "idle"
    /\ df_boal_unit = <<>>
    /\ df_fpn_unit = <<>>
    /\ df_bod_unit = None
    /\ out = <<>>
    /\ resolved = <<>>
    /\ df_merged = NoFrame
    /\ passed = NoFrame
    /\ ret = NaN
    /\ raised = NoError
    /\ \E t \in 0..(HoursPerDay - 1) :
          etl = [pc |-> "job_now", tod |-> t, scheduled |-> FALSE, wait |-> 0,
                 runs |-> 0, parity |-> 0, last |-> "none", failed |-> 0,
                 warnings |-> 0, propagated |-> FALSE]

Library == <<pc, df_boal_unit, df_fpn_unit, df_bod_unit, out, resolved, df_merged,
             passed, ret, raised>>

\* line 40: run job now
JobNow ==
    /\ etl.pc = "job_now"
    /\ \E outcome \in Outcomes, d \in 0..MaxJobHours :
          etl' = After(job(etl, outcome, d), "schedule")
    /\ UNCHANGED Library

\* line 43: schedule.every().day.at("04:00").do(job)
ScheduleDaily ==
    /\ etl.pc = "schedule"
    /\ etl' = [etl EXCEPT !.pc = "run_pending", !.scheduled = TRUE,
                          !.wait = NextRunIn(etl.tod)]
    /\ UNCHANGED Library

\* line 46: schedule.run_pending() runs the job when its next_run has come
\* and schedules its next run
RunPending ==
    /\ etl.pc = "run_pending"
    /\ IF etl.scheduled /\ etl.wait = 0
       THEN \E outcome \in Outcomes, d \in 0..MaxJobHours :
               LET e == job(etl, outcome, d)
               IN  etl' = After([e EXCEPT !.wait = NextRunIn(e.tod)], "sleep")
       ELSE etl' = [etl EXCEPT !.pc = "sleep"]
    /\ UNCHANGED Library

\* line 47: time.sleep(1)
Sleep ==
    /\ etl.pc = "sleep"
    /\ etl' = [etl EXCEPT !.pc = "run_pending",
                          !.tod = (@ + 1) % HoursPerDay,
                          !.wait = IF @ > 0 THEN @ - 1 ELSE 0]
    /\ UNCHANGED Library

NextETL ==
    \/ JobNow
    \/ ScheduleDaily
    \/ RunPending
    \/ Sleep

\* the loop of main keeps running, and a run of the job ends
SpecETL == InitETL /\ [][NextETL]_vars /\ WF_vars(NextETL)

----------------------------------------------------------------------------
(* What the input tables say, read off the tables themselves *)

\* the minute labels from lo to hi
MinuteLabels(lo, hi) == {g \in lo..hi : g % TicksPerMinute = 0}

\* the points (time, level) a table's rows of one Accept ID assert
PointsOf(table, id) ==
    {<<table[i].timeFrom, table[i].levelFrom>> :
        i \in {j \in 1..Len(table) : table[j].AcceptID = id}}
    \cup {<<table[i].timeTo, table[i].levelTo>> :
        i \in {j \in 1..Len(table) : table[j].AcceptID = id}}

TimesOf(table, id) == {p[1] : p \in PointsOf(table, id)}

\* the contiguous minute range of those points
RangeOf(table, id) ==
    MinuteLabels(Floor(Min(TimesOf(table, id))), Floor(Max(TimesOf(table, id))))

BatchIDs == {df_boal_unit[i].AcceptID : i \in 1..Len(df_boal_unit)}

\* the minutes at least one BOAL batch covers, and the minutes of the FPN
CoveredMinutes == UNION {RangeOf(df_boal_unit, id) : id \in BatchIDs}
FpnMinutes == RangeOf(df_fpn_unit, NaN)

ResolvedTimes == {resolved[i].Time : i \in 1..Len(resolved)}
ResolvedLevel(g) == (CHOOSE r \in {resolved[i] : i \in 1..Len(resolved)} : r.Time = g).Level

ResolveReturned == pc = "resolved" /\ raised = NoError
\* analyze_one_unit has returned its frame and no metric has touched it
AnalyzeReturned == pc = "frame" /\ df_fpn_unit # <<>>

MetricNames == {"calculate_curtailment_in_mwh", "calculate_curtailment_costs_in_gbp",
                "calculate_notified_generation_in_mwh"}

RowTime(r) == IF "Time" \in DOMAIN r THEN r.Time ELSE r.local_datetime

----------------------------------------------------------------------------
(* The claims *)

\* C1: in the resolved series, at every minute that the upsampled traces of
\* two batches both cover with different levels, the level is that of the
\* batch with the later Accept Time, whatever the batches' Accept IDs and
\* the row order of the table.
C1_LatestAcceptTimeWins ==
    ResolveReturned =>
        \A k1, k2 \in 1..Len(out) :
            \A i \in 1..Len(out[k1]), j \in 1..Len(out[k2]) :
                (/\ out[k1][i].Time = out[k2][j].Time
                 /\ out[k2][j].AcceptTime > out[k1][i].AcceptTime
                 /\ out[k2][j].Level # out[k1][i].Level)
                => /\ ResolvedLevel(out[k1][i].Time) = out[k2][j].Level
                   /\ ResolvedLevel(out[k1][i].Time) # out[k1][i].Level

\* C2: the resolved series of a non-empty table has one row per minute, no
\* minute twice, its minutes are exactly the union of the batches' own minute
\* ranges (a gap between batches is absent), and the level at a minute is a
\* level of a batch whose range holds that minute.
C2_OneRowPerCoveredMinute ==
    ResolveReturned =>
        /\ Cardinality(ResolvedTimes) = Len(resolved)
        /\ ResolvedTimes = CoveredMinutes
        /\ \A i \in 1..Len(resolved) :
              \E id \in BatchIDs :
                  /\ resolved[i].Time \in RangeOf(df_boal_unit, id)
                  /\ resolved[i].Level \in
                        {astype_float(p[2]) : p \in PointsOf(df_boal_unit, id)}

\* C2's case: two batches with an uncovered minute between them
C2_Witness ==
    /\ ResolveReturned
    /\ Len(out) = 2
    /\ \E g \in MinuteLabels(0, MaxTick) :
          /\ g \notin ResolvedTimes
          /\ \E a, b \in ResolvedTimes : a < g /\ g < b

\* C3: analyze_one_unit returns one row per minute of the FPN series when no
\* price table is given, and with a price table one row per FPN minute that
\* has a pair-"1" price row at exactly its timestamp.
C3_RowCount ==
    AnalyzeReturned =>
        IF df_bod_unit = None
        THEN Len(df_merged.rows) = Cardinality(FpnMinutes)
        ELSE Len(df_merged.rows) =
                Cardinality({g \in FpnMinutes :
                    \E j \in 1..Len(df_bod_unit[1]) :
                        /\ df_bod_unit[1][j].bidOfferPairNumber = "1"
                        /\ df_bod_unit[1][j].local_datetime = g})

\* C4: in every row of analyze_one_unit's frame Level_After_BOAL is
\* Level_BOAL where that is defined and Level_FPN elsewhere, and delta is
\* Level_FPN - Level_After_BOAL: 0 in a minute no BOAL batch covers,
\* Level_FPN - Level_BOAL in a minute one covers.
C4_AfterBoalAndDelta ==
    AnalyzeReturned =>
        \A i \in 1..Len(df_merged.rows) :
            LET r == df_merged.rows[i]
            IN  /\ r.Level_FPN # NaN
                /\ r.Level_After_BOAL =
                      (IF r.Level_BOAL # NaN THEN r.Level_BOAL ELSE r.Level_FPN)
                /\ r.delta = r.Level_FPN - r.Level_After_BOAL
                /\ IF RowTime(r) \in CoveredMinutes
                   THEN r.Level_BOAL # NaN /\ r.delta = r.Level_FPN - r.Level_BOAL
                   ELSE r.Level_BOAL = NaN /\ r.delta = 0

\* C4's case: a frame with a minute under an acceptance and a minute under none
C4_Witness ==
    /\ AnalyzeReturned
    /\ \E i, j \in 1..Len(df_merged.rows) :
          /\ df_merged.rows[i].Level_BOAL = NaN
          /\ df_merged.rows[j].Level_BOAL # NaN
          /\ df_merged.rows[j].delta > 0

IsScenario ==
    \E T \in ScenarioStarts :
        df_boal_unit = ScenarioBoal(T) /\ df_fpn_unit \in ScenarioFpn(T)

\* C5: for an hour of FPN at 100 MW and an acceptance at 60 MW from minute 25
\* to minute 35, the frame has delta = 0 in exactly 50 rows and delta = 40 in
\* exactly 10 rows, and its curtailment is 40 * 10 / 60 MWh.
C5_HourScenario ==
    IsScenario =>
        /\ pc = "frame" =>
              /\ Len(SelectSeq(df_merged.rows, LAMBDA r : r.delta = 0)) = 50
              /\ Len(SelectSeq(df_merged.rows, LAMBDA r : r.delta = astype_float(40))) = 10
        /\ pc = "calculate_curtailment_in_mwh" =>
              ret = (astype_float(40) * 10) \div MinutesPerHour

\* C6: on a table without rows resolve_applied_bid_offer_level returns an
\* empty series and does not raise, and analyze_one_unit with FPN segments
\* and an empty BOAL table returns one row per FPN minute with Level_BOAL
\* undefined, Level_After_BOAL = Level_FPN and delta = 0.
C6_EmptyBoal ==
    /\ (df_boal_unit = <<>> /\ pc = "resolved") => (raised = NoError /\ resolved = <<>>)
    /\ (df_boal_unit = <<>> /\ df_fpn_unit # <<>>) =>
        /\ pc # "failed"
        /\ pc = "frame" =>
              /\ Len(df_merged.rows) = Cardinality(FpnMinutes)
              /\ \A i \in 1..Len(df_merged.rows) :
                    /\ df_merged.rows[i].Level_BOAL = NaN
                    /\ df_merged.rows[i].Level_After_BOAL = df_merged.rows[i].Level_FPN
                    /\ df_merged.rows[i].delta = 0

\* the column whose sum a metric function returns
ColumnRead(f) ==
    CASE f = "calculate_curtailment_in_mwh" -> "delta"
      [] f = "calculate_curtailment_costs_in_gbp" -> "bidPrice"
      [] f = "calculate_notified_generation_in_mwh" -> "Level_FPN"

\* C7: a metric function returns NaN when a row of its frame has NaN in the
\* column it reads (delta, bidPrice, Level_FPN).
C7_NaNPropagates ==
    (pc \in MetricNames /\ raised = NoError) =>
        ((\E i \in 1..Len(passed.rows) : passed.rows[i][ColumnRead(pc)] = NaN)
            => ret = NaN)

\* C8: a metric function that returns leaves the frame handed to it as it
\* was: the same columns, the same value in every cell.
C8_FrameUnchanged ==
    (pc \in MetricNames /\ raised = NoError) =>
        /\ df_merged.columns = passed.columns
        /\ df_merged.rows = passed.rows

\* C9: the job runs once at start-up; every 04:00 the polling loop reaches
\* makes the job due and a due job is run; a run that raises is logged,
\* never ends the process or the loop, and another run follows it.
C9_ServiceSurvivesFailedRuns ==
    /\ [](etl.pc # "dead" /\ etl.warnings = etl.failed)
    /\ [](etl.pc = "schedule" => etl.runs = 1)
    /\ [][(etl.pc = "sleep" /\ etl'.tod = RunAt) => etl'.wait = 0]_vars
    /\ [][(etl.pc = "run_pending" /\ etl.scheduled /\ etl.wait = 0)
            => etl'.parity # etl.parity]_vars
    /\ \A b \in {0, 1} :
          (etl.last = "raised" /\ etl.parity = b) ~> (etl.parity # b)

\* C9's case: a run that returned after a run that raised
C9_Witness ==
    /\ etl.pc = "sleep"
    /\ etl.failed = 1
    /\ etl.runs = 2
    /\ etl.last = "returned"

\* C10: one batch's upsampled trace has a row for every minute of the
\* batch's range; a minute with points has the level of a point of earliest
\* time in it, whatever the row order, and a minute without points has the
\* level of the nearest earlier minute that has one (held, not ramped).
C10_FirstInTimeThenHeld ==
    ResolveReturned =>
        \A k \in 1..Len(out) :
            LET trace == out[k]
                id == trace[1].AcceptID
                pts == PointsOf(df_boal_unit, id)
                In(g) == {p \in pts : Floor(p[1]) = g}
                Earliest(g) == {p \in In(g) : \A q \in In(g) : p[1] <= q[1]}
            IN  /\ {trace[i].Time : i \in 1..Len(trace)} = RangeOf(df_boal_unit, id)
                /\ Len(trace) = Cardinality(RangeOf(df_boal_unit, id))
                /\ \A i \in 1..Len(trace) :
                      IF In(trace[i].Time) # {}
                      THEN trace[i].Level \in
                              {astype_float(p[2]) : p \in Earliest(trace[i].Time)}
                      ELSE LET held == Max({j \in 1..(i - 1) : In(trace[j].Time) # {}})
                           IN  /\ trace[i].Time > trace[held].Time
                               /\ trace[i].Level = trace[held].Level

\* C10's case: a batch whose table lists a later point of a minute before
\* the minute's earliest point, and with a minute that has no point
C10_Witness ==
    /\ ResolveReturned
    /\ Len(out) = 1
    /\ LET lin == linearize_physical_data(df_boal_unit)
       IN  /\ \E a, b \in 1..Len(lin) :
                 /\ a < b
                 /\ lin[a].Time > lin[b].Time
                 /\ Floor(lin[a].Time) = Floor(lin[b].Time)
           /\ \E i \in 1..Len(out[1]) :
                 \A a \in 1..Len(lin) : Floor(lin[a].Time) # out[1][i].Time
====
